---- MODULE Spec2Model ----
(***************************************************************************)
(* Color Match Runner: the frame loop, the input handlers and the popup    *)
(* acknowledgment of the two variants of the component,                    *)
(*   "canvas" = src/src/components/GameCanvas.tsx                          *)
(*   "part"   = src/unnamed/part_000                                       *)
(* Vertical positions, heights and speeds are kept in quarter pixels       *)
(* (the speed step of part_000 is 0.25), horizontal ones in pixels.        *)
(* React state (score, level, ...) is the committed state; state updates   *)
(* requested from a frame callback or from an effect wait in `updates`     *)
(* until React renders and commits them (Commit); updates requested from   *)
(* a click handler are committed, with their effects, before the handler's *)
(* event ends.  A frame closure is the (score, level, highScore) of the    *)
(* render that created its animate function.                               *)
(***************************************************************************)
EXTENDS Integers, Sequences, FiniteSets, TLC

VARIABLES
    variant,        \* which source file this behaviour runs
    mounted,        \* the component is mounted
    gameStarted,    \* useState gameStarted
    score,          \* useState score
    level,          \* useState level
    highScore,      \* useState highScore
    showPopup,      \* useState showPopup
    popupText,      \* useState popupText, as the record of what the text says
    updates,        \* state updates requested and not yet committed
    lag,            \* frame callbacks run since `updates` became non-empty
    colorIndex,     \* gameStateRef.current.ball.colorIndex
    bounceHeight,   \* sin(ball.bounceOffset) * 5 of the last step (quarter pixels)
    obstacles,      \* gameStateRef.current.obstacles
    particles,      \* gameStateRef.current.particles (remaining lifetimes)
    gameSpeed,      \* gameStateRef.current.gameSpeed (quarter pixels)
    obstacleTimer,  \* gameStateRef.current.obstacleTimer
    gameRunning,    \* gameStateRef.current.gameRunning
    animationRef,   \* animationRef.current (0 = null)
    frames,         \* requested animation frames not yet run or cancelled
    overs,          \* game overs acknowledged so far
    fnIn,           \* SpecFn: the score a pure function is applied to
    fnOut           \* SpecFn: what it returned (0: not applied yet)

vars == <<variant, mounted, gameStarted, score, level, highScore, showPopup,
          popupText, updates, lag, colorIndex, bounceHeight, obstacles,
          particles, gameSpeed, obstacleTimer, gameRunning, animationRef,
          frames, overs, fnIn, fnOut>>

(***************************************************************************)
(* Bounds of the exploration.                                              *)
(***************************************************************************)
MaxGates == 1       \* Spec: scoring collisions a session is followed for
MaxOvers == 1       \* Spec: acknowledged game overs
MaxLag == 1         \* frame callbacks that may run before a pending commit
MaxGatesLevel == 20 \* SpecLevel: scoring collisions a session is followed for
FreeGates == 19     \* SpecLevel: scored gates after which the first session
                    \* is followed freely
MaxFnScore == 1200  \* SpecFn: the scores the level is derived from
FastScorePart == 47200   \* SpecFast: the score of the session, part_000
FastScoreCanvas == 22400 \* SpecFast: the score of the session, GameCanvas.tsx
MaxFreqScore == 10400 \* SpecFrequency: the scores the threshold is derived from

(***************************************************************************)
(* Program constants.                                                      *)
(***************************************************************************)
Q == 4                  \* quarter pixels per pixel (speed step 0.25)
CanvasWidth == 320
CanvasHeight == 600
BallX == 150
BallY == 500
BallRadius == 20
BaseSpeed == 2
ScoreStep == 10
LevelScore == 200
MaxLevel == 5
SpeedScore == 100
SuccessCount == 15
FailCount == 8
SuccessLife == 60
FailLife == 30
PassMargin == 20
RemoveMargin == 50
BounceAmp == 5

Variants == {"canvas", "part"}

MaxScore == MaxGates * ScoreStep
MaxScoreLevel == MaxGatesLevel * ScoreStep
FreeScore == FreeGates * ScoreStep

\* the element of a one-element set
Only(S) == CHOOSE x \in S : TRUE

Min(a, b) == IF a < b THEN a ELSE b
Max(a, b) == IF a > b THEN a ELSE b

\* bounceHeight = sin(bounceOffset) * 5: a value of [-5, 5] each step
BounceSet == {0, BounceAmp * Q}

KeyCodes == {"Space", "ArrowUp", "Enter", "KeyA", "Escape"}
AdvanceKeys == {"Space", "ArrowUp", "Enter"}

(***************************************************************************)
(* Pure functions of the source.                                           *)
(***************************************************************************)
\* variation: a new level every 100 points
LevelOfHundred(s) == Min(s \div SpeedScore + 1, MaxLevel)

\* variation: the level without its cap
LevelOfUncapped(s) == s \div LevelScore + 1

\* Math.min(Math.floor(score / 200) + 1, 5)
LevelOf(s) == Min(s \div LevelScore + 1, MaxLevel)

\* variation: the colour count without its cap
ColorCountUncapped(l) == l + 1

\* getCurrentLevelColors(level).length
ColorCount(l) == Min(l + 1, 5)

\* variation: a speed that stays at its base
SpeedOfBase(v, s) == BaseSpeed * Q

\* baseSpeed + Math.floor(score / 100) * k, k = 0.25 (part) or 0.5 (canvas)
SpeedOf(v, s) ==
    BaseSpeed * Q + (s \div SpeedScore) * (IF v = "part" THEN 1 ELSE 2)

\* variation: a gate every 20 steps
FrequencyOfTwenty(v, s) == Min(20, Max(80 - s \div 50, 40))

\* variation: a threshold without its floor
FrequencyOfNoFloor(v, s) ==
    IF v = "part" THEN 100 - s \div 200 ELSE 80 - s \div 50

\* obstacleFrequency
FrequencyOf(v, s) ==
    IF v = "part" THEN Max(100 - s \div 200, 50)
                  ELSE Max(80 - s \div 50, 40)

\* gate geometry at spawn and as drawn
GateWidth(v) == IF v = "part" THEN 140 ELSE 120
GateHeight(v) == (IF v = "part" THEN 80 ELSE 60) * Q
CenterX(v) == CanvasWidth \div 2 - GateWidth(v) \div 2
SpawnWidth(v) == IF v = "part" THEN 140 ELSE 60
SpawnHeight(v) == (IF v = "part" THEN 80 ELSE 30) * Q
SpawnY(v) == IF v = "part" THEN -(80 * Q) ELSE -(50 * Q)
\* Math.random() * (canvasWidth - 80) + 40 in GameCanvas.tsx; centerX in part_000
SpawnXs(v) == IF v = "part" THEN {CenterX(v)} ELSE {40, CenterX(v), 279}

\* the ball's vertical extent in the collision test: it moves with the bounce
BallTop(bh) == (BallY - BallRadius) * Q + bh
BallBottom(bh) == (BallY + BallRadius) * Q + bh

\* the ball's lower edge in the passed test: ball.y + ball.radius, no bounce
PassBottom == (BallY + BallRadius) * Q

\* the ball as drawn: a circle of the radius around ballY = ball.y + bounceHeight
DrawnTop(bh) == (BallY * Q + bh) - BallRadius * Q
DrawnBottom(bh) == (BallY * Q + bh) + BallRadius * Q

PassLine == PassBottom + PassMargin * Q
RemoveLine == (CanvasHeight + RemoveMargin) * Q

\* the ball's hit-box against a gate, bh the bounce height of this step
Collision(g, bh) ==
    /\ BallX + BallRadius > g.x
    /\ BallX - BallRadius < g.x + g.width
    /\ BallBottom(bh) > g.y
    /\ BallTop(bh) < g.y + g.height

(***************************************************************************)
(* Records.                                                                *)
(***************************************************************************)
NoPopup == [kind |-> "none", score |-> 0, high |-> 0, level |-> 0, next |-> 0]

\* "Game Over!\nScore: ${score}\nHigh Score: ${newHighScore}\nLevel: ${level}"
GameOverText(s, h, l) ==
    [kind |-> "gameover", score |-> s, high |-> h, level |-> l, next |-> 0]

\* "Level " + level + " Complete!\nScore: ${newScore}\nNow for Level ${newLevel}..."
LevelUpText(l, s, n) ==
    [kind |-> "levelup", score |-> s, high |-> 0, level |-> l, next |-> n]

\* a requested state update: t names the setter (scoreLazy: a part_000 score
\* updater that has not run yet, v the level its closure captured)
Upd(t, v, p) == [t |-> t, v |-> v, p |-> p]

Closure(s, l, h) == [score |-> s, level |-> l, high |-> h]

FrameRec(id, kind, cl) ==
    [id |-> id, kind |-> kind, score |-> cl.score, level |-> cl.level,
     high |-> cl.high]

ClosureOf(f) == Closure(f.score, f.level, f.high)

FrameIds(fs) == {f.id : f \in fs}

\* requestAnimationFrame returns an id that no pending frame and no holder has
FreshId(fs, ref) ==
    CHOOSE i \in 1..(Cardinality(fs) + 2) :
        /\ i \notin FrameIds(fs) \cup {ref}
        /\ \A j \in 1..(i - 1) : j \in FrameIds(fs) \cup {ref}

GateIds(obs) == {obs[i].id : i \in 1..Len(obs)}

\* a tag for a gate object that no present gate carries (gates have no id in
\* the source; the tag follows one object through the array)
FreshGate(obs) ==
    CHOOSE i \in 1..(Len(obs) + 1) :
        /\ i \notin GateIds(obs)
        /\ \A j \in 1..(i - 1) : j \in GateIds(obs)

Burst(n, life) == [i \in 1..n |-> life]

\* variation: a burst of 8 particles whatever the event
CreateParticlesEight(ps, isSuccess) ==
    ps \o Burst(FailCount, IF isSuccess THEN SuccessLife ELSE FailLife)

\* createParticles(x, y, color, isSuccess)
CreateParticles(ps, isSuccess) ==
    ps \o (IF isSuccess THEN Burst(SuccessCount, SuccessLife)
                        ELSE Burst(FailCount, FailLife))

\* variation: a particle filter that keeps lifetime 0
UpdateParticlesKeepsZero(ps) ==
    LET dec == [i \in 1..Len(ps) |-> ps[i] - 1]
    IN  SelectSeq(dec, LAMBDA l : l >= 0)

\* particle.life--; return particle.life > 0
UpdateParticles(ps) ==
    LET dec == [i \in 1..Len(ps) |-> ps[i] - 1]
    IN  SelectSeq(dec, LAMBDA l : l > 0)

(***************************************************************************)
(* handleGameOver, on the world record of a step.                          *)
(***************************************************************************)
\* variation: a game over that overwrites the high score with the score
HandleGameOverOverwrites(a, cl) ==
    [a EXCEPT
        !.running = FALSE,
        !.updates = a.updates \o
            <<Upd("high", cl.score, NoPopup),
              Upd("popup", 0, GameOverText(cl.score, cl.score, cl.level)),
              Upd("show", 1, NoPopup)>>]

HandleGameOver(a, cl) ==
    LET newHigh == Max(cl.score, cl.high)
    IN  [a EXCEPT
            !.running = FALSE,
            !.updates = a.updates \o
                <<Upd("high", newHigh, NoPopup),
                  Upd("popup", 0, GameOverText(cl.score, newHigh, cl.level)),
                  Upd("show", 1, NoPopup)>>]

(***************************************************************************)
(* setScore from a scoring collision.  GameCanvas.tsx: prev => prev + 10.  *)
(* part_000: the updater also raises the level, with side effects; React   *)
(* runs it at once when the component has no update pending (eager) and    *)
(* otherwise during the next render.                                       *)
(***************************************************************************)
\* variation: an updater that takes an unchanged level for a raised one
ScoreUpdateSameLevel(a, v, cl, cs, eager) ==
    IF v = "canvas"
    THEN [a EXCEPT !.updates = Append(a.updates, Upd("score", 0, NoPopup))]
    ELSE IF eager /\ a.updates = <<>>
    THEN LET newScore == cs + ScoreStep
             newLevel == LevelOf(newScore)
         IN  IF newLevel >= cl.level
             THEN [a EXCEPT
                    !.running = FALSE,
                    !.updates = <<Upd("popup", 0,
                                      LevelUpText(cl.level, newScore, newLevel)),
                                  Upd("show", 1, NoPopup),
                                  Upd("level", newLevel, NoPopup),
                                  Upd("score", 0, NoPopup)>>]
             ELSE [a EXCEPT !.updates = <<Upd("score", 0, NoPopup)>>]
    ELSE [a EXCEPT !.updates = Append(a.updates, Upd("scoreLazy", cl.level, NoPopup))]

ScoreUpdate(a, v, cl, cs, eager) ==
    IF v = "canvas"
    THEN [a EXCEPT !.updates = Append(a.updates, Upd("score", 0, NoPopup))]
    ELSE IF eager /\ a.updates = <<>>
    THEN LET newScore == cs + ScoreStep
             newLevel == LevelOf(newScore)
         IN  IF newLevel > cl.level
             THEN [a EXCEPT
                    !.running = FALSE,
                    !.updates = <<Upd("popup", 0,
                                      LevelUpText(cl.level, newScore, newLevel)),
                                  Upd("show", 1, NoPopup),
                                  Upd("level", newLevel, NoPopup),
                                  Upd("score", 0, NoPopup)>>]
             ELSE [a EXCEPT !.updates = <<Upd("score", 0, NoPopup)>>]
    ELSE [a EXCEPT !.updates = Append(a.updates, Upd("scoreLazy", cl.level, NoPopup))]

(***************************************************************************)
(* The obstacle filter of animate, one gate at a time in array order.      *)
(* a.keep: the gates the filter keeps; a.mut: every gate visited, as the   *)
(* callback left it (what stays in the array when the callback throws).    *)
(***************************************************************************)
\* variation: a scoring collision that leaves the gate unmarked
MatchGateUnmarked(a, g, v, cl, cs, ci, eager) ==
    LET a1 == ScoreUpdate(a, v, cl, cs, eager)
    IN  [a1 EXCEPT !.particles = CreateParticles(a.particles, TRUE),
                   !.mut = Append(a.mut, g),
                   !.keep = Append(a.keep, g)]

\* the collision branch on a gate already moved: a |-> a', and the gate
MatchGate(a, g, v, cl, cs, ci, eager) ==
    LET a1 == ScoreUpdate(a, v, cl, cs, eager)
    IN  IF g.colorIndex >= ColorCount(cl.level)
        \* colors[obstacle.colorIndex].value of an undefined entry throws
        THEN [a1 EXCEPT !.thrown = TRUE, !.mut = Append(a.mut, g)]
        ELSE LET g1 == [g EXCEPT !.passed = TRUE]
             IN  [a1 EXCEPT
                    !.particles = CreateParticles(a.particles, TRUE),
                    !.mut = Append(a.mut, g1),
                    !.keep = IF g1.y < RemoveLine THEN Append(a.keep, g1)
                                                  ELSE a.keep]

\* variation: a failed collision that keeps the gate
MismatchGateKept(a, g, cl) ==
    LET a1 == HandleGameOver(
                 [a EXCEPT !.particles = CreateParticles(a.particles, FALSE)], cl)
    IN  [a1 EXCEPT !.mut = Append(a.mut, g), !.keep = Append(a.keep, g)]

MismatchGate(a, g, cl) ==
    LET a1 == HandleGameOver(
                 [a EXCEPT !.particles = CreateParticles(a.particles, FALSE)], cl)
    IN  [a1 EXCEPT !.mut = Append(a.mut, g)]

\* variation: a filter without its passed mark
NoHitGateUnmarked(a, g) ==
    [a EXCEPT !.mut = Append(a.mut, g),
              !.keep = IF g.y < RemoveLine THEN Append(a.keep, g) ELSE a.keep]

\* variation: a filter that keeps a gate wherever it is
NoHitGateKeepsAll(a, g) ==
    LET g1 == IF ~g.passed /\ g.y > PassLine THEN [g EXCEPT !.passed = TRUE] ELSE g
    IN  [a EXCEPT !.mut = Append(a.mut, g1), !.keep = Append(a.keep, g1)]

NoHitGate(a, g) ==
    LET g1 == IF ~g.passed /\ g.y > PassLine THEN [g EXCEPT !.passed = TRUE] ELSE g
    IN  [a EXCEPT !.mut = Append(a.mut, g1),
                  !.keep = IF g1.y < RemoveLine THEN Append(a.keep, g1) ELSE a.keep]

\* variation: a collision branch that lets a gate of the ball's colour go by
FilterGateNoMatch(a, g0, v, cl, cs, ci, speed, bh, eager) ==
    LET g == [g0 EXCEPT !.y = g0.y + speed]
    IN  IF Collision(g, bh) /\ ~g.passed /\ ci # g.colorIndex
        THEN MismatchGate(a, g, cl)
        ELSE NoHitGate(a, g)

\* variation: the collision branch taken by passed gates too
FilterGateAnyPass(a, g0, v, cl, cs, ci, speed, bh, eager) ==
    LET g == [g0 EXCEPT !.y = g0.y + speed]
    IN  IF Collision(g, bh)
        THEN IF ci = g.colorIndex
             THEN MatchGate(a, g, v, cl, cs, ci, eager)
             ELSE MismatchGate(a, g, cl)
        ELSE NoHitGate(a, g)

FilterGate(a, g0, v, cl, cs, ci, speed, bh, eager) ==
    LET g == [g0 EXCEPT !.y = g0.y + speed]
    IN  IF Collision(g, bh) /\ ~g.passed
        THEN IF ci = g.colorIndex
             THEN MatchGate(a, g, v, cl, cs, ci, eager)
             ELSE MismatchGate(a, g, cl)
        ELSE NoHitGate(a, g)

RECURSIVE FilterObstacles(_, _, _, _, _, _, _, _, _, _)
FilterObstacles(a0, obs, i, v, cl, cs, ci, speed, bh, eager) ==
    \* a: the accumulator as the callbacks so far left it, taken once
    Only({IF i > Len(obs) THEN a
          ELSE IF a.thrown THEN [a EXCEPT !.mut = a.mut \o SubSeq(obs, i, Len(obs))]
          ELSE FilterObstacles(FilterGate(a, obs[i], v, cl, cs, ci, speed, bh, eager),
                               obs, i + 1, v, cl, cs, ci, speed, bh, eager) :
          a \in {a0}})

(***************************************************************************)
(* The render part of animate.  It reads colors[...] of every gate and of  *)
(* the ball: an index outside the level's colours throws.  GameCanvas.tsx  *)
(* also recentres and resizes every gate it draws.                         *)
(***************************************************************************)
DrawnGate(v, g) ==
    IF v = "canvas"
    THEN [g EXCEPT !.x = CenterX(v), !.width = GateWidth(v), !.height = GateHeight(v)]
    ELSE g

\* index of the first gate whose colour lookup throws, 0 if none
FirstBadGate(obs, n) ==
    LET bad == {i \in 1..Len(obs) : obs[i].colorIndex >= n}
    IN  IF bad = {} THEN 0 ELSE CHOOSE i \in bad : \A j \in bad : i <= j

DrawObstacles(v, obs, n) ==
    LET b == FirstBadGate(obs, n)
    IN  [i \in 1..Len(obs) |->
            IF b = 0 \/ i <= b THEN DrawnGate(v, obs[i]) ELSE obs[i]]

DrawThrows(obs, ci, n) == FirstBadGate(obs, n) # 0 \/ ci >= n

(***************************************************************************)
(* animate: one simulation step and its render, then requestAnimationFrame.*)
(* w: the world the call runs in; kind: "effect" for the animate of the    *)
(* main-loop effect, "popup" for the one handlePopupAction of part_000     *)
(* builds; cl: the closure; bh, sc, sx: this step's bounce height, spawn   *)
(* colour and spawn x; eager: whether React runs a score updater at once.  *)
(***************************************************************************)
\* variation: a gate that is spawned already passed
NewGatePassed(v, obs, sc, sx) ==
    [x |-> sx, y |-> SpawnY(v), width |-> SpawnWidth(v), height |-> SpawnHeight(v),
     colorIndex |-> sc, passed |-> TRUE, id |-> FreshGate(obs)]

NewGate(v, obs, sc, sx) ==
    [x |-> sx, y |-> SpawnY(v), width |-> SpawnWidth(v), height |-> SpawnHeight(v),
     colorIndex |-> sc, passed |-> FALSE, id |-> FreshGate(obs)]

\* the end of animate: a the outcome of the obstacle filter, w1 the world so far
AnimateRender(w1, a, v, kind, cl) ==
    IF a.thrown
    THEN [w1 EXCEPT !.obstacles = a.mut, !.particles = a.particles,
                    !.updates = a.updates, !.gameRunning = a.running,
                    !.thrown = TRUE]
    ELSE IF DrawThrows(a.keep, w1.colorIndex, ColorCount(cl.level))
    THEN [w1 EXCEPT !.obstacles = DrawObstacles(v, a.keep, ColorCount(cl.level)),
                    !.particles = UpdateParticles(a.particles),
                    !.updates = a.updates, !.gameRunning = a.running,
                    !.thrown = TRUE]
    ELSE [w1 EXCEPT !.obstacles = DrawObstacles(v, a.keep, ColorCount(cl.level)),
                    !.particles = UpdateParticles(a.particles),
                    !.updates = a.updates, !.gameRunning = a.running,
                    !.frames = w1.frames \cup
                        {FrameRec(FreshId(w1.frames, w1.animationRef), kind, cl)},
                    !.animationRef = FreshId(w1.frames, w1.animationRef)]

\* the obstacle filter of a step on the gates obs1, the new gate included
AnimateFilter(w, obs1, upd1, v, cl, bh, eager) ==
    FilterObstacles([running |-> TRUE, updates |-> upd1, particles |-> w.particles,
                     keep |-> <<>>, mut |-> <<>>, thrown |-> FALSE],
                    obs1, 1, v, cl, w.score, w.colorIndex, SpeedOf(v, cl.score),
                    bh, eager)

\* variation: a step that never recomputes the level from the score
AnimateStepKeepsLevel(w, v, kind, cl, bh, sc, sx, eager) ==
    LET spawn == w.obstacleTimer + 1 >= FrequencyOf(v, cl.score)
        obs1 == IF spawn THEN Append(w.obstacles, NewGate(v, w.obstacles, sc, sx))
                         ELSE w.obstacles
    IN  Only({AnimateRender(w1, a, v, kind, cl) :
                w1 \in {[w EXCEPT !.gameSpeed = SpeedOf(v, cl.score),
                                  !.bounceHeight = bh,
                                  !.obstacleTimer = IF spawn THEN 0
                                                    ELSE w.obstacleTimer + 1]},
                a \in {AnimateFilter(w, obs1, w.updates, v, cl, bh, eager)}})

AnimateStep(w, v, kind, cl, bh, sc, sx, eager) ==
    LET newLevel == LevelOf(cl.score)
        upd1 == IF kind = "effect" /\ newLevel # cl.level
                THEN Append(w.updates, Upd("level", newLevel, NoPopup))
                ELSE w.updates
        spawn == w.obstacleTimer + 1 >= FrequencyOf(v, cl.score)
        obs1 == IF spawn THEN Append(w.obstacles, NewGate(v, w.obstacles, sc, sx))
                         ELSE w.obstacles
    IN  Only({AnimateRender(w1, a, v, kind, cl) :
                w1 \in {[w EXCEPT !.gameSpeed = SpeedOf(v, cl.score),
                                  !.bounceHeight = bh,
                                  !.obstacleTimer = IF spawn THEN 0
                                                    ELSE w.obstacleTimer + 1]},
                a \in {AnimateFilter(w, obs1, upd1, v, cl, bh, eager)}})

\* variation: animate without its early return
AnimateAlways(w, v, kind, cl, bh, sc, sx, eager) ==
    AnimateStep(w, v, kind, cl, bh, sc, sx, eager)

\* if (!gameStateRef.current.gameRunning) return;
Animate(w, v, kind, cl, bh, sc, sx, eager) ==
    IF ~w.gameRunning THEN w
    ELSE AnimateStep(w, v, kind, cl, bh, sc, sx, eager)

\* the inputs a step draws: spawn colours matter only in a spawning step;
\* free: the score from which the random source is unconstrained
SpawnColors(w, v, cl, free) ==
    IF /\ w.gameRunning /\ w.obstacleTimer + 1 >= FrequencyOf(v, cl.score)
       /\ cl.score >= free
    THEN 0..(ColorCount(cl.level) - 1) ELSE {0}

\* the step w0 |-> w1 ended the session (handleGameOver ran)
EndsSession(w0, w1) ==
    \E i \in (Len(w0.updates) + 1)..Len(w1.updates) : w1.updates[i].t = "high"

SpawnXsOf(w, v, cl) ==
    IF w.gameRunning /\ w.obstacleTimer + 1 >= FrequencyOf(v, cl.score)
    THEN SpawnXs(v) ELSE {CenterX(v)}

\* some gate not yet passed enters the hit-box in this step for some bounce
InReach(w, v, cl) ==
    /\ w.gameRunning
    /\ \E i \in 1..Len(w.obstacles), b \in BounceSet :
        LET g == [w.obstacles[i] EXCEPT !.y = @ + SpeedOf(v, cl.score)]
        IN  ~g.passed /\ Collision(g, b)

\* the bounce height matters only to a gate it brings into or out of the hit-box
BounceChoices(w, v, cl, free) ==
    IF InReach(w, v, cl) /\ cl.score >= free THEN BounceSet ELSE {BounceAmp * Q}

\* whether React runs a score updater at once matters only to part_000's
EagerChoices(w, v, cl) == IF v = "part" /\ InReach(w, v, cl) THEN BOOLEAN ELSE {FALSE}

\* variation: a cancel that cancels nothing
CancelFrameNone(fs, ref) == fs

\* cancelAnimationFrame(animationRef.current), when it is not null
CancelFrame(fs, ref) == {f \in fs : f.id # ref}

(***************************************************************************)
(* React's render of the pending updates: every hook's queue in order; a   *)
(* lazy score updater of part_000 runs here, and the setters it calls are  *)
(* render-phase updates, applied after the queued ones.                    *)
(***************************************************************************)
\* variation: a score update that adds 20
ApplyUpdateTwenty(r, u) ==
    CASE u.t \in {"score", "scoreLazy"} -> [r EXCEPT !.score = r.score + 2 * ScoreStep]
      [] u.t = "level" -> [r EXCEPT !.level = u.v]
      [] u.t = "high" -> [r EXCEPT !.high = u.v]
      [] u.t = "popup" -> [r EXCEPT !.popup = u.p]
      [] u.t = "show" -> [r EXCEPT !.show = (u.v = 1)]

\* variation: a lazy score updater that raises the level without pausing
ApplyUpdateNoPause(r, u) ==
    CASE u.t \in {"score", "scoreLazy"} -> [r EXCEPT !.score = r.score + ScoreStep]
      [] u.t = "level" -> [r EXCEPT !.level = u.v]
      [] u.t = "high" -> [r EXCEPT !.high = u.v]
      [] u.t = "popup" -> [r EXCEPT !.popup = u.p]
      [] u.t = "show" -> [r EXCEPT !.show = (u.v = 1)]

ApplyUpdate(r, u) ==
    CASE u.t = "score" -> [r EXCEPT !.score = r.score + ScoreStep]
      [] u.t = "scoreLazy" ->
            LET newScore == r.score + ScoreStep
                newLevel == LevelOf(newScore)
            IN  IF newLevel > u.v
                THEN [r EXCEPT !.score = newScore, !.running = FALSE,
                               !.rlevel = newLevel, !.rshow = TRUE,
                               !.rpopup = LevelUpText(u.v, newScore, newLevel)]
                ELSE [r EXCEPT !.score = newScore]
      [] u.t = "level" -> [r EXCEPT !.level = u.v]
      [] u.t = "high" -> [r EXCEPT !.high = u.v]
      [] u.t = "popup" -> [r EXCEPT !.popup = u.p]
      [] u.t = "show" -> [r EXCEPT !.show = (u.v = 1)]

RECURSIVE ApplyUpdates(_, _, _)
ApplyUpdates(r, us, i) ==
    IF i > Len(us) THEN r ELSE ApplyUpdates(ApplyUpdate(r, us[i]), us, i + 1)

Rendered(us) ==
    LET r == ApplyUpdates(
                [score |-> score, level |-> level, high |-> highScore,
                 popup |-> popupText, show |-> showPopup, running |-> gameRunning,
                 rlevel |-> 0, rshow |-> FALSE, rpopup |-> NoPopup], us, 1)
    IN  [score |-> r.score,
         level |-> IF r.rlevel # 0 THEN r.rlevel ELSE r.level,
         high |-> r.high,
         popup |-> IF r.rpopup # NoPopup THEN r.rpopup ELSE r.popup,
         show |-> r.show \/ r.rshow,
         running |-> r.running]

\* the score the pending updates lead to
PendingScore(us) ==
    score + ScoreStep * Cardinality({i \in 1..Len(us) : us[i].t \in {"score", "scoreLazy"}})

(***************************************************************************)
(* The world a call of animate reads and writes, and its write-back.       *)
(***************************************************************************)
World ==
    [score |-> score, colorIndex |-> colorIndex, bounceHeight |-> bounceHeight,
     obstacles |-> obstacles,
     particles |-> particles, gameSpeed |-> gameSpeed,
     obstacleTimer |-> obstacleTimer, gameRunning |-> gameRunning,
     updates |-> updates, frames |-> frames, animationRef |-> animationRef,
     thrown |-> FALSE]

\* cleanup of the main-loop effect, then the effect itself: animate()
RunEffect(w, v, cl, bh, sc, sx, eager) ==
    Animate([w EXCEPT !.frames = CancelFrame(w.frames, w.animationRef)],
            v, "effect", cl, bh, sc, sx, eager)

\* an error thrown by an effect unmounts the component
SetWorld(w, unmount) ==
    /\ colorIndex' = w.colorIndex
    /\ bounceHeight' = w.bounceHeight
    /\ obstacles' = w.obstacles
    /\ particles' = w.particles
    /\ gameSpeed' = w.gameSpeed
    /\ obstacleTimer' = w.obstacleTimer
    /\ gameRunning' = w.gameRunning
    /\ animationRef' = w.animationRef
    /\ frames' = IF unmount THEN CancelFrame(w.frames, w.animationRef) ELSE w.frames
    /\ updates' = IF unmount THEN <<>> ELSE w.updates
    /\ mounted' = (mounted /\ ~unmount)

(***************************************************************************)
(* startGame, and the main-loop effect its render runs.                    *)
(***************************************************************************)
StartGame ==
    /\ mounted /\ ~gameStarted
    /\ LET cl == Closure(score, level, highScore)
           w0 == [World EXCEPT !.gameRunning = TRUE]
       IN  \E bh \in BounceChoices(w0, variant, cl, 0) :
            \E w1 \in {Animate(w0, variant, "effect", cl, bh, 0, CenterX(variant), FALSE)} :
                SetWorld(w1, w1.thrown)
    /\ gameStarted' = TRUE
    /\ lag' = 0
    /\ UNCHANGED <<variant, score, level, highScore, showPopup, popupText, overs, fnIn, fnOut>>

(***************************************************************************)
(* A requested animation frame runs its animate.                           *)
(***************************************************************************)
FrameStep(maxScore, free) ==
    /\ updates = <<>> \/ lag < MaxLag
    /\ \E f \in frames :
        LET cl == ClosureOf(f)
            w0 == [World EXCEPT !.frames = frames \ {f}]
        IN  \E bh \in BounceChoices(w0, variant, cl, free),
               eager \in EagerChoices(w0, variant, cl),
               sc \in SpawnColors(w0, variant, cl, free),
               sx \in SpawnXsOf(w0, variant, cl) :
            \E w1 \in {Animate(w0, variant, f.kind, cl, bh, sc, sx, eager)} :
                /\ PendingScore(w1.updates) <= maxScore
                /\ EndsSession(w0, w1) => PendingScore(w1.updates) >= free
                /\ SetWorld([w1 EXCEPT !.updates = IF mounted THEN w1.updates ELSE <<>>],
                            FALSE)
    /\ lag' = IF updates = <<>> THEN 0 ELSE lag + 1
    /\ UNCHANGED <<variant, gameStarted, score, level, highScore, showPopup,
                   popupText, overs, fnIn, fnOut>>

Frame == FrameStep(MaxScore, 0)

FrameLevel ==
    FrameStep(IF overs = 0 THEN MaxScoreLevel ELSE MaxScore,
              IF overs = 0 THEN FreeScore ELSE 0)

(***************************************************************************)
(* React renders and commits the pending updates; when score, level or     *)
(* highScore changed, the main-loop effect is cleaned up and run again.    *)
(***************************************************************************)
CommitStep(maxScore, free) ==
    /\ mounted /\ updates # <<>>
    /\ \E r \in {Rendered(updates)} :
       LET changed == <<r.score, r.level, r.high>> # <<score, level, highScore>>
           cl == Closure(r.score, r.level, r.high)
           w0 == [World EXCEPT !.score = r.score, !.gameRunning = r.running,
                               !.updates = <<>>]
       IN  /\ score' = r.score
           /\ level' = r.level
           /\ highScore' = r.high
           /\ popupText' = r.popup
           /\ showPopup' = r.show
           /\ IF changed /\ gameStarted
              THEN \E bh \in BounceChoices(w0, variant, cl, free),
                      eager \in EagerChoices(w0, variant, cl) :
                    \E sc \in SpawnColors(w0, variant, cl, free),
                       sx \in SpawnXsOf(w0, variant, cl) :
                        \E w1 \in {RunEffect(w0, variant, cl, bh, sc, sx, eager)} :
                            /\ PendingScore(w1.updates) - score + r.score <= maxScore
                            /\ EndsSession(w0, w1) =>
                                PendingScore(w1.updates) - score + r.score >= free
                            /\ SetWorld(w1, w1.thrown)
              ELSE SetWorld(w0, FALSE)
    /\ lag' = 0
    /\ UNCHANGED <<variant, gameStarted, overs, fnIn, fnOut>>

Commit == CommitStep(MaxScore, 0)

CommitLevel ==
    CommitStep(IF overs = 0 THEN MaxScoreLevel ELSE MaxScore,
               IF overs = 0 THEN FreeScore ELSE 0)

(***************************************************************************)
(* handlePopupAction (the popup's button), with the render its click       *)
(* handler's updates cause before the event ends.                          *)
(***************************************************************************)
\* variation: a reset that leaves the ball's colour
ResetCanvasKeepsColor(w) ==
    [w EXCEPT !.obstacles = <<>>, !.particles = <<>>,
              !.gameSpeed = BaseSpeed * Q, !.obstacleTimer = 0,
              !.gameRunning = TRUE]

\* GameCanvas.tsx handlePopupAction, the gameStateRef part
ResetCanvas(w) ==
    [w EXCEPT !.obstacles = <<>>, !.particles = <<>>, !.colorIndex = 0,
              !.gameSpeed = BaseSpeed * Q, !.obstacleTimer = 0,
              !.gameRunning = TRUE]

\* GameCanvas.tsx: every popup is a game over
PopupActionCanvas ==
    /\ variant = "canvas"
    /\ mounted /\ showPopup
    /\ overs < MaxOvers
    /\ LET changed == <<0, 1>> # <<score, level>>
           cl == Closure(0, 1, highScore)
           w0 == [ResetCanvas(World) EXCEPT !.score = 0]
       IN  IF changed
           THEN \E bh \in BounceChoices(w0, variant, cl, 0) :
                    \E w1 \in {RunEffect(w0, variant, cl, bh, 0, CenterX(variant), FALSE)} :
                        SetWorld(w1, w1.thrown)
           ELSE SetWorld(w0, FALSE)
    /\ showPopup' = FALSE
    /\ score' = 0
    /\ level' = 1
    /\ overs' = overs + 1
    /\ UNCHANGED <<variant, gameStarted, highScore, popupText, lag, fnIn, fnOut>>

\* gameSpeed = 2 + Math.floor((level - 1) * 100 / 100) * 0.25
ResetSpeed(l) == BaseSpeed * Q + ((l - 1) * 100) \div 100

\* part_000 handlePopupAction, the game-over branch (gameStateRef part)
GameOverReset(w, l) ==
    [w EXCEPT !.obstacles = <<>>, !.particles = <<>>, !.colorIndex = 0,
              !.gameSpeed = ResetSpeed(l), !.obstacleTimer = 0,
              !.gameRunning = TRUE]

\* variation: a resume that keeps the gates
LevelUpResumeKeepsGates(w) ==
    [w EXCEPT !.gameRunning = TRUE, !.particles = <<>>, !.obstacleTimer = 0]

\* part_000 handlePopupAction, the level-up branch
LevelUpResume(w) ==
    [w EXCEPT !.gameRunning = TRUE, !.obstacles = <<>>, !.particles = <<>>,
              !.obstacleTimer = 0]

\* part_000: a game over resets the score and the ball; a level-up resumes
PopupActionPart ==
    /\ variant = "part"
    /\ mounted /\ showPopup
    /\ LET over == popupText.kind = "gameover"
           newScore == IF over THEN 0 ELSE score
           \* the closure of handlePopupAction: the render that shows the popup
           old == Closure(score, level, highScore)
           cl == Closure(newScore, level, highScore)
           w0 == IF over THEN GameOverReset(World, level) ELSE LevelUpResume(World)
           w1 == [w0 EXCEPT !.frames = CancelFrame(w0.frames, w0.animationRef)]
       IN  /\ over => overs < MaxOvers
           /\ overs' = IF over THEN overs + 1 ELSE overs
           /\ score' = newScore
           /\ \E bh \in BounceChoices(w1, variant, old, 0) :
                \E w2 \in {Animate(w1, variant, "popup", old, bh, 0,
                                    CenterX(variant), FALSE)} :
                \E w3 \in {[w2 EXCEPT !.score = newScore, !.thrown = FALSE]} :
                    IF newScore # score
                    THEN \E bh2 \in BounceChoices(w3, variant, cl, 0) :
                         \E w4 \in {RunEffect(w3, variant, cl, bh2, 0,
                                               CenterX(variant), FALSE)} :
                            SetWorld(w4, w4.thrown)
                    ELSE SetWorld(w3, FALSE)
    /\ showPopup' = FALSE
    /\ UNCHANGED <<variant, gameStarted, level, highScore, popupText, lag, fnIn, fnOut>>

PopupAction == PopupActionCanvas \/ PopupActionPart

(***************************************************************************)
(* Input handlers.                                                         *)
(***************************************************************************)
\* changeColor, with the level of the render that created it
\* variation: an advance that does not wrap around
NextColorNoWrap(i, n) == i + 1

\* (colorIndex + 1) % colors.length
NextColor(i, n) == (i + 1) % n

ChangeColor ==
    colorIndex' = IF ~gameRunning THEN colorIndex
                  ELSE NextColor(colorIndex, ColorCount(level))

\* variation: an ignored event that resets the ball's colour
IgnoredResets == colorIndex' = 0

Ignored == colorIndex' = colorIndex

\* variation: an event that also restarts the spawn timer
InputRestTimer ==
    /\ obstacleTimer' = 0
    /\ UNCHANGED <<variant, mounted, gameStarted, score, level, highScore, showPopup,
                   popupText, updates, lag, bounceHeight, obstacles, particles,
                   gameSpeed, gameRunning, animationRef, frames, overs, fnIn, fnOut>>

InputRest ==
    UNCHANGED <<variant, mounted, gameStarted, score, level, highScore, showPopup,
                popupText, updates, lag, bounceHeight, obstacles, particles,
                gameSpeed, obstacleTimer, gameRunning, animationRef, frames,
                overs, fnIn, fnOut>>

\* handleKeyDown on a key that is (advance) or is not one of the three
KeyDownStep(advance) ==
    /\ mounted
    /\ IF ~gameStarted \/ ~gameRunning THEN Ignored
       ELSE IF advance THEN ChangeColor
       ELSE Ignored
    /\ InputRest

KeyDown(code) == KeyDownStep(code \in AdvanceKeys)

HandleKeyDown ==
    \E advance \in {(code \in AdvanceKeys) : code \in KeyCodes} : KeyDownStep(advance)

HandleTouch ==
    /\ mounted
    /\ IF ~gameStarted \/ ~gameRunning THEN Ignored ELSE ChangeColor
    /\ InputRest

HandleClick ==
    /\ mounted
    /\ IF ~gameStarted \/ ~gameRunning THEN Ignored ELSE ChangeColor
    /\ InputRest

(***************************************************************************)
(* Teardown: the cleanup of the main-loop effect, if the effect ever got   *)
(* past its gameStarted test.                                              *)
(***************************************************************************)
Unmount ==
    /\ mounted
    /\ mounted' = FALSE
    /\ frames' = IF gameStarted THEN CancelFrame(frames, animationRef) ELSE frames
    /\ updates' = <<>>
    /\ UNCHANGED <<variant, gameStarted, score, level, highScore, showPopup,
                   popupText, lag, colorIndex, bounceHeight, obstacles, particles,
                   gameSpeed, obstacleTimer, gameRunning, animationRef, overs,
                   fnIn, fnOut>>

(***************************************************************************)
(* The component after construction.                                       *)
(***************************************************************************)
InitGame ==
    /\ variant \in Variants
    /\ mounted = TRUE
    /\ gameStarted = FALSE
    /\ score = 0
    /\ level = 1
    /\ highScore = 0
    /\ showPopup = FALSE
    /\ popupText = NoPopup
    /\ updates = <<>>
    /\ lag = 0
    /\ colorIndex = 0
    /\ bounceHeight = 0
    /\ obstacles = <<>>
    /\ particles = <<>>
    /\ gameSpeed = BaseSpeed * Q
    /\ obstacleTimer = 0
    /\ gameRunning = TRUE
    /\ animationRef = 0
    /\ frames = {}
    /\ overs = 0

Init ==
    /\ InitGame
    /\ fnIn = 0
    /\ fnOut = 0

Next ==
    \/ StartGame
    \/ Frame
    \/ Commit
    \/ PopupAction
    \/ HandleKeyDown
    \/ HandleTouch
    \/ HandleClick

Spec == Init /\ [][Next]_vars

(***************************************************************************)
(* The same component followed to the first level-up: score 200 takes      *)
(* twenty scored gates, so in the first session, below FreeScore, the      *)
(* random source draws colour 0, the bounce is at its top and a session    *)
(* that ends is not followed; from FreeScore on, and in a session after an *)
(* acknowledged game over, everything is free as in Spec.                  *)
(***************************************************************************)
NextLevel ==
    \/ StartGame
    \/ FrameLevel
    \/ CommitLevel
    \/ PopupAction
    \/ HandleKeyDown
    \/ HandleTouch
    \/ HandleClick

SpecLevel == Init /\ [][NextLevel]_vars

(***************************************************************************)
(* The level derivation alone: newLevel of animate and of the score        *)
(* updater, applied to every score up to MaxFnScore.                       *)
(***************************************************************************)
InitFn ==
    /\ InitGame
    /\ fnIn \in 0..MaxFnScore
    /\ fnOut = 0

GameVars ==
    <<variant, mounted, gameStarted, score, level, highScore, showPopup,
      popupText, updates, lag, colorIndex, bounceHeight, obstacles, particles,
      gameSpeed, obstacleTimer, gameRunning, animationRef, frames, overs>>

\* const newLevel = Math.min(Math.floor(score / 200) + 1, 5)
DeriveLevel ==
    /\ fnOut = 0
    /\ fnOut' = LevelOf(fnIn)
    /\ UNCHANGED <<fnIn, GameVars>>

\* the same on the next score
RaiseScore ==
    /\ fnOut # 0
    /\ fnIn < MaxFnScore
    /\ fnIn' = fnIn + 1
    /\ fnOut' = LevelOf(fnIn + 1)
    /\ UNCHANGED GameVars

NextFn ==
    \/ DeriveLevel
    \/ RaiseScore

SpecFn == InitFn /\ [][NextFn]_vars

(***************************************************************************)
(* Vocabulary of the properties.                                           *)
(***************************************************************************)
Running == mounted /\ gameStarted /\ gameRunning

\* the score once every requested score update is committed
ScoreTotal == PendingScore(updates)

GameOverRequested ==
    \E k \in 1..Len(updates) :
        updates[k].t = "popup" /\ updates[k].p.kind = "gameover"

LevelUpRequested ==
    \E k \in 1..Len(updates) :
        updates[k].t = "popup" /\ updates[k].p.kind = "levelup"

LevelUpShown == showPopup /\ popupText.kind = "levelup"
GameOverShown == showPopup /\ popupText.kind = "gameover"

\* this transition ran a simulation step of a running session
Stepped == Running /\ ~showPopup /\ obstacleTimer' # obstacleTimer

\* gate i of the current state overlaps the ball in the step of this transition
Overlaps(i) ==
    Collision([obstacles[i] EXCEPT !.y = @ + gameSpeed'], bounceHeight')

\* the step of this transition is the first overlap of gate i
FirstOverlap(i) == Stepped /\ ~obstacles[i].passed /\ Overlaps(i)

\* the gate with tag id, as the next state has it, is passed
PassedNext(id) ==
    \E j \in 1..Len(obstacles') : obstacles'[j].id = id /\ obstacles'[j].passed

\* this transition acknowledges the popup
Acknowledged == showPopup /\ ~showPopup'

(***************************************************************************)
(* C1.  Every transition of the session back to Running (start, level-up   *)
(* acknowledgment, game-over acknowledgment) leaves the frame loop         *)
(* running: when the transition is done a frame callback is requested.     *)
(* Stated for both variants; GameCanvas.tsx's handlePopupAction requests   *)
(* none and relies on the main-loop effect, which does not run again when  *)
(* score, level and high score are what they were.                         *)
(***************************************************************************)
C1_LoopRestarted == [][(~Running /\ Running') => frames' # {}]_vars

(***************************************************************************)
(* C2.  While the session is Ended or Paused(LevelUp), and until the       *)
(* acknowledgment, no step changes the gates, the particles, the spawn     *)
(* timer, the ball's colour or the speed, requests a further update or     *)
(* resumes the session; score and level change only by the commit of the   *)
(* updates the transition's own frame had requested.                       *)
(***************************************************************************)
C2_NoSimulationWhileStopped ==
    [][(mounted /\ gameStarted /\ ~gameRunning /\ ~Acknowledged) =>
        /\ ~gameRunning'
        /\ UNCHANGED <<obstacles, particles, obstacleTimer, colorIndex, gameSpeed,
                       bounceHeight>>
        /\ updates' \in {updates, <<>>}
        /\ (<<score, level>>' # <<score, level>>) =>
                (updates # <<>> /\ updates' = <<>>)]_vars

\* a frame callback has run while a level-up pause was still to be committed
C2_Witness ==
    /\ gameStarted /\ ~gameRunning
    /\ LevelUpRequested
    /\ lag = 1

(***************************************************************************)
(* C3.  In a running session, the first overlap of the ball with a gate    *)
(* not yet passed whose colour differs from the ball's ends the session    *)
(* (running flag off, game-over popup requested), leaves the score as it   *)
(* is and removes the gate.                                                *)
(***************************************************************************)
C3_MismatchEnds ==
    [][\A i \in 1..Len(obstacles) :
        (FirstOverlap(i) /\ obstacles[i].colorIndex # colorIndex) =>
            /\ ~gameRunning'
            /\ GameOverRequested'
            /\ ScoreTotal' = ScoreTotal
            /\ obstacles[i].id \notin GateIds(obstacles')]_vars

\* a session ended by a collision and not yet rendered
C3_Witness ==
    /\ gameStarted /\ ~gameRunning
    /\ GameOverRequested
    /\ Len(particles) = FailCount

(***************************************************************************)
(* C4.  In a running session, the first overlap of the ball with a gate    *)
(* not yet passed whose colour equals the ball's raises the score by       *)
(* exactly 10, marks the gate passed, keeps it in the collection and does  *)
(* not end the session.                                                    *)
(***************************************************************************)
C4_MatchScores ==
    [][\A i \in 1..Len(obstacles) :
        (FirstOverlap(i) /\ obstacles[i].colorIndex = colorIndex) =>
            /\ ScoreTotal' = ScoreTotal + 10
            /\ PassedNext(obstacles[i].id)
            /\ ~GameOverRequested'
            /\ ~GameOverShown']_vars

\* a gate scored at the level-up score: passed, still overlapping the ball
C4_Witness ==
    /\ gameStarted
    /\ ScoreTotal = LevelScore
    /\ \E i \in 1..Len(obstacles) :
        obstacles[i].passed /\ Collision(obstacles[i], bounceHeight)

(***************************************************************************)
(* C5.  A gate's passed flag never goes back from true to false, every     *)
(* change of the score is an award of 10 from the first overlap of a gate  *)
(* not yet passed, and an overlap of a gate already passed neither ends    *)
(* the session nor removes the gate: a gate is scored at most once.        *)
(***************************************************************************)
C5_PassedOnce ==
    [][/\ \A i \in 1..Len(obstacles) :
            (obstacles[i].passed /\ obstacles[i].id \in GateIds(obstacles')) =>
                PassedNext(obstacles[i].id)
       /\ (~Acknowledged /\ ScoreTotal' # ScoreTotal) =>
            /\ ScoreTotal' = ScoreTotal + 10
            /\ \E i \in 1..Len(obstacles) :
                FirstOverlap(i) /\ obstacles[i].colorIndex = colorIndex
       /\ \A i \in 1..Len(obstacles) :
            (Stepped /\ obstacles[i].passed /\ Overlaps(i)) =>
                /\ obstacles[i].id \in GateIds(obstacles')
                /\ (GameOverRequested' \/ ScoreTotal' # ScoreTotal) =>
                    \E j \in 1..Len(obstacles) : FirstOverlap(j)]_vars

\* a running session whose ball overlaps a gate that is already passed,
\* in a state a step has produced
C5_Witness ==
    /\ Running
    /\ obstacleTimer > 1
    /\ \E i \in 1..Len(obstacles) :
        /\ obstacles[i].passed
        /\ Collision(obstacles[i], bounceHeight)
        /\ obstacles[i].colorIndex # colorIndex

(***************************************************************************)
(* C6.  part_000: when a score whose level exceeds the current level is    *)
(* committed, the session is paused (running flag off), the level is the   *)
(* new level and the level-up notification is shown; while it is shown     *)
(* the session stays paused, and only the acknowledgment resumes it.       *)
(***************************************************************************)
C6_LevelUpPauses ==
    [][variant = "part" =>
        /\ (score' > score /\ LevelOf(score') > level) =>
            /\ ~gameRunning'
            /\ level' = LevelOf(score')
            /\ LevelUpShown'
            /\ popupText'.next = level'
            /\ popupText'.score = score'
        /\ LevelUpShown' => ~gameRunning'
        /\ (LevelUpShown /\ gameRunning') => Acknowledged]_vars

\* the first level-up of part_000, shown and not yet acknowledged
C6_Witness ==
    /\ variant = "part"
    /\ LevelUpShown /\ ~gameRunning
    /\ score = LevelScore /\ level = 2
    /\ updates = <<>>

(***************************************************************************)
(* C7.  part_000: acknowledging a level-up notification returns the        *)
(* session to Running with no gates, no particles and the spawn timer      *)
(* restarted (reset to 0, then counted once by the step the handler's own  *)
(* animate runs), and leaves score, level, ball colour and high score.     *)
(***************************************************************************)
C7_LevelUpAck ==
    [][(variant = "part" /\ LevelUpShown /\ Acknowledged) =>
        /\ gameRunning'
        /\ obstacles' = <<>>
        /\ particles' = <<>>
        /\ obstacleTimer' = 1
        /\ UNCHANGED <<score, level, colorIndex, highScore>>]_vars

\* a level-up acknowledged with a ball colour other than 0
C7_Witness ==
    /\ variant = "part"
    /\ popupText.kind = "levelup" /\ ~showPopup
    /\ Running
    /\ obstacleTimer = 1
    /\ score = LevelScore /\ level = 2
    /\ colorIndex = 1

(***************************************************************************)
(* C8.  Both variants: acknowledging a game-over notification returns the  *)
(* session to Running with score 0, no gates, no particles, spawn timer 0, *)
(* ball colour 0 and the high score unchanged.                             *)
(***************************************************************************)
C8_GameOverAckTimerZero ==
    [][(GameOverShown /\ Acknowledged) =>
        /\ gameRunning'
        /\ score' = 0
        /\ obstacles' = <<>>
        /\ particles' = <<>>
        /\ obstacleTimer' = 0
        /\ colorIndex' = 0
        /\ highScore' = highScore]_vars

(***************************************************************************)
(* C8, as the code has it: the same, with the spawn timer restarted: reset *)
(* to 0 and then counted by each step the acknowledgment itself runs (the  *)
(* handler's own animate in part_000, the animate of the main-loop effect  *)
(* when the score changed), hence at most 2, and at least 1 in part_000.   *)
(***************************************************************************)
C8_GameOverAck ==
    [][(GameOverShown /\ Acknowledged) =>
        /\ gameRunning'
        /\ score' = 0
        /\ obstacles' = <<>>
        /\ particles' = <<>>
        /\ obstacleTimer' \in 0..2
        /\ variant = "part" => obstacleTimer' >= 1
        /\ colorIndex' = 0
        /\ highScore' = highScore]_vars

\* a game over at score 10 acknowledged: the high score stays 10
C8_Witness ==
    /\ overs = 1 /\ gameRunning /\ ~showPopup
    /\ popupText.kind = "gameover"
    /\ score = 0 /\ highScore = 10
    /\ obstacles = <<>>
    /\ obstacleTimer \in 1..2

(***************************************************************************)
(* C9.  part_000: acknowledging a game over preserves the level: after     *)
(* it, as long as no scoring collision has occurred, the level is the      *)
(* level the ended session had reached.                                    *)
(***************************************************************************)
C9_LevelPreserved ==
    (/\ variant = "part" /\ mounted
     /\ popupText.kind = "gameover" /\ ~showPopup
     /\ overs = 1 /\ ScoreTotal = 0)
        => level = popupText.level

(***************************************************************************)
(* C10.  The level derived from a score is min(floor(score / 200) + 1, 5), *)
(* lies in 1..5 and does not decrease when the score grows; score 0 gives  *)
(* 1, 250 gives 2, 650 gives 4.                                            *)
(***************************************************************************)
C10_LevelOfScore ==
    [][/\ fnOut' = (IF fnIn' \div 200 + 1 < 5 THEN fnIn' \div 200 + 1 ELSE 5)
       /\ fnOut' \in 1..5
       /\ fnIn' > fnIn => fnOut' >= fnOut
       /\ fnIn' = 0 => fnOut' = 1
       /\ fnIn' = 250 => fnOut' = 2
       /\ fnIn' = 650 => fnOut' = 4]_vars

\* the level of score 650 has been derived
C10_Witness == fnIn = 650 /\ fnOut = 4

(***************************************************************************)
(* The colours in play alone: the level animate derives from a score and   *)
(* the colours getCurrentLevelColors gives that level, for every score up  *)
(* to MaxFnScore.  fnOut is <<level, colours>>.                            *)
(***************************************************************************)
NoColors == <<0, 0>>

\* getCurrentLevelColors(level) of the level derived from score s
ColorsOfScore(s) == <<LevelOf(s), ColorCount(LevelOf(s))>>

InitColors ==
    /\ InitGame
    /\ fnIn \in 0..MaxFnScore
    /\ fnOut = NoColors

DeriveColors ==
    /\ fnOut = NoColors
    /\ fnOut' = ColorsOfScore(fnIn)
    /\ UNCHANGED <<fnIn, GameVars>>

\* the same on the next score
RaiseColors ==
    /\ fnOut # NoColors
    /\ fnIn < MaxFnScore
    /\ fnIn' = fnIn + 1
    /\ fnOut' = ColorsOfScore(fnIn + 1)
    /\ UNCHANGED GameVars

NextColors ==
    \/ DeriveColors
    \/ RaiseColors

SpecColors == InitColors /\ [][NextColors]_vars

(***************************************************************************)
(* C11.  For every level 1..5 the number of active colours is              *)
(* min(level + 1, 5): at least 2, at most 5, and not smaller for a higher  *)
(* level.                                                                  *)
(***************************************************************************)
C11_ColorCount ==
    [][/\ fnOut'[1] \in 1..5
       /\ fnOut'[2] = (IF fnOut'[1] + 1 < 5 THEN fnOut'[1] + 1 ELSE 5)
       /\ fnOut'[2] >= 2 /\ fnOut'[2] <= 5
       /\ fnOut'[1] >= fnOut[1] => fnOut'[2] >= fnOut[2]]_vars

\* the colours of level 5 have been derived: capped at 5
C11_Witness == fnOut = <<5, 5>> /\ fnIn >= 800

(***************************************************************************)
(* C12.  part_000: the third colour is in play exactly when the score is   *)
(* at least 200, the fourth exactly when it is at least 400, the fifth     *)
(* exactly when it is at least 600.                                        *)
(***************************************************************************)
C12_ColorsOfScorePart ==
    (variant = "part" /\ fnOut # NoColors) =>
        /\ fnOut[2] >= 3 <=> fnIn >= 200
        /\ fnOut[2] >= 4 <=> fnIn >= 400
        /\ fnOut[2] >= 5 <=> fnIn >= 600

\* part_000 at score 400: the fourth colour has just come into play
C12_Witness == variant = "part" /\ fnIn = 400 /\ fnOut = <<3, 4>>

(***************************************************************************)
(* C13.  GameCanvas.tsx: the third colour is in play once the score is at  *)
(* least 100, the fourth once it is at least 300, the fifth once it is at  *)
(* least 600, as its start screen says.                                    *)
(***************************************************************************)
C13_ColorsOfScoreCanvas ==
    (variant = "canvas" /\ fnOut # NoColors) =>
        /\ fnIn >= 100 => fnOut[2] >= 3
        /\ fnIn >= 300 => fnOut[2] >= 4
        /\ fnIn >= 600 => fnOut[2] >= 5

(***************************************************************************)
(* Vocabulary of the input properties.                                     *)
(***************************************************************************)
\* this transition is a key press, a touch or a click
InputEvent == HandleKeyDown \/ HandleTouch \/ HandleClick

\* the colour index after k advances among n colours
RECURSIVE Rotate(_, _, _)
Rotate(i, n, k) == IF k = 0 THEN i ELSE Rotate(NextColor(i, n), n, k - 1)

(***************************************************************************)
(* C14.  An advance-colour event delivered to a started, running session   *)
(* sets the ball's colour index to (index + 1) mod the number of active    *)
(* colours, one step per event; from an index below that number, as many   *)
(* advances as there are colours give the index back (1 of 3 goes to 2,    *)
(* then to 0).                                                             *)
(***************************************************************************)
C14_AdvanceRotates ==
    [][(InputEvent /\ gameStarted /\ gameRunning) =>
        LET n == ColorCount(level)
        IN  /\ colorIndex' = (colorIndex + 1) % n
            /\ colorIndex < n =>
                /\ Rotate(colorIndex, n, n) = colorIndex
                /\ Rotate(colorIndex, n, 1) = (IF colorIndex = n - 1 THEN 0
                                               ELSE colorIndex + 1)]_vars

\* index 2 of the 3 colours of level 2: two advances have been taken
C14_Witness ==
    /\ Running /\ level = 2 /\ colorIndex = 2
    /\ updates = <<>>

(***************************************************************************)
(* C15.  A key press, touch or click while the session is not started,     *)
(* paused or ended, and a key press of another code than Space, ArrowUp    *)
(* or Enter in any state, changes nothing: no step that changes the state  *)
(* is such an event, and the component stays mounted.                      *)
(***************************************************************************)
C15_IgnoredInput ==
    [][~ \/ (InputEvent /\ (~gameStarted \/ ~gameRunning))
         \/ \E code \in KeyCodes \ AdvanceKeys : KeyDown(code)]_vars

\* an ended session showing its popup, the ball's colour not 0
C15_Witness ==
    /\ mounted /\ gameStarted /\ ~gameRunning
    /\ GameOverShown
    /\ colorIndex = 1

(***************************************************************************)
(* C16.  An accepted advance-colour event changes the ball's colour index  *)
(* and nothing else: score, level, high score, running flag, spawn timer,  *)
(* speed, gates, particles, pending updates and frames stay as they are.   *)
(***************************************************************************)
C16_AdvanceOnlyColour ==
    [][(InputEvent /\ gameStarted /\ gameRunning) =>
        /\ colorIndex' # colorIndex
        /\ UNCHANGED <<score, level, highScore, gameRunning, obstacleTimer,
                       gameSpeed, obstacles, particles, updates, frames,
                       showPopup, popupText, bounceHeight, animationRef,
                       mounted, gameStarted>>]_vars

\* an advance taken in the middle of a session: gates, particles and a
\* frame are there
C16_Witness ==
    /\ Running /\ colorIndex = 1
    /\ obstacles # <<>> /\ particles # <<>>
    /\ frames # {} /\ updates # <<>>

(***************************************************************************)
(* C17.  When a session ends, the high score requested is the maximum of   *)
(* the high score and the session's score, every awarded point counted,    *)
(* and the game-over summary reports that score and that high score; the   *)
(* commit of the game over makes it the high score; the high score never   *)
(* decreases, and nothing but the commit of a game over changes it.        *)
(***************************************************************************)
C17_HighScore ==
    [][/\ (GameOverRequested' /\ ~GameOverRequested) =>
            \E k \in 1..Len(updates') :
                /\ updates'[k].t = "high"
                /\ updates'[k].v = Max(highScore', ScoreTotal')
                /\ updates'[k + 1].t = "popup"
                /\ updates'[k + 1].p.score = ScoreTotal'
                /\ updates'[k + 1].p.high = updates'[k].v
       /\ (GameOverRequested /\ mounted /\ updates' = <<>>) =>
            /\ highScore' = Max(highScore, score')
            /\ GameOverShown'
            /\ popupText'.score = score'
            /\ popupText'.high = highScore'
       /\ highScore' >= highScore
       /\ highScore' # highScore => (GameOverRequested /\ ~Acknowledged)]_vars

\* a second session ended at score 0: the high score of the first is kept
C17_Witness ==
    /\ overs = 1 /\ GameOverShown
    /\ score = 0 /\ highScore = 10
    /\ popupText.score = 0 /\ popupText.high = 10

(***************************************************************************)
(* The component of SpecLevel with its teardown: React may unmount it in   *)
(* any state, which runs the cleanup of the main-loop effect.              *)
(***************************************************************************)
NextTeardown ==
    \/ NextLevel
    \/ Unmount

SpecTeardown == Init /\ [][NextTeardown]_vars

(***************************************************************************)
(* C18.  At most one frame callback is pending at any time, whatever the   *)
(* interleaving of start, frames, commits, pauses, game overs and          *)
(* acknowledgments, and none is pending once the component is torn down.   *)
(***************************************************************************)
C18_OneLoop ==
    /\ Cardinality(frames) <= 1
    /\ ~mounted => frames = {}

\* a running session torn down in the middle of a level-2 session
C18_Witness ==
    /\ ~mounted /\ gameStarted /\ gameRunning
    /\ level = 2 /\ obstacles # <<>>
    /\ animationRef # 0 /\ frames = {}

(***************************************************************************)
(* C19.  In every simulation step each particle's remaining lifetime goes  *)
(* down by exactly 1, a particle is removed in exactly the step that       *)
(* takes its lifetime to 0 (the others stay, in order, followed by the     *)
(* particles the step created), and no particle of lifetime 0 or less is   *)
(* ever in the collection.                                                 *)
(***************************************************************************)
C19_ParticleLife ==
    [][/\ \A i \in 1..Len(particles') : particles'[i] >= 1
       /\ Stepped =>
            LET live == SelectSeq(particles, LAMBDA l : l # 1)
            IN  /\ Len(particles') >= Len(live)
                /\ \A i \in 1..Len(live) : particles'[i] = live[i] - 1
                /\ \A i \in (Len(live) + 1)..Len(particles') :
                    particles'[i] \in {SuccessLife - 1, FailLife - 1}]_vars

\* the burst of a scored gate has lived its 60 steps and is gone
C19_Witness ==
    /\ Running /\ overs = 0
    /\ score = 10
    /\ \E i \in 1..Len(obstacles) : obstacles[i].passed
    /\ particles = <<>>

(***************************************************************************)
(* C20.  The render part of a frame changes no game-state field.  The      *)
(* simulation part never writes a gate's x, width or height after the      *)
(* spawn, so with a render that changes nothing every gate has, after      *)
(* every frame, the x, width and height it was spawned with.               *)
(***************************************************************************)
C20_RenderKeepsGates ==
    \A i \in 1..Len(obstacles) :
        /\ obstacles[i].x \in SpawnXs(variant)
        /\ obstacles[i].width = SpawnWidth(variant)
        /\ obstacles[i].height = SpawnHeight(variant)

(***************************************************************************)
(* C21.  In every simulation step the collision test and the passed test   *)
(* take the ball's vertical extent from one definition, and it is the one  *)
(* the ball is drawn with.  The collision test and the drawing move the    *)
(* ball by the bounce height; the passed test does not.                    *)
(***************************************************************************)
C21_OneBallExtent ==
    [][Stepped =>
        /\ BallBottom(bounceHeight') = PassBottom
        /\ BallBottom(bounceHeight') = DrawnBottom(bounceHeight')
        /\ BallTop(bounceHeight') = DrawnTop(bounceHeight')]_vars

(***************************************************************************)
(* C22.  Within a session, from the start command or a game-over           *)
(* acknowledgment until the next game over, no step lowers the level.      *)
(* Stated for both variants; in part_000 the acknowledgment keeps the      *)
(* level and the first animate of the new session, whose score is 0,       *)
(* requests level 1.                                                       *)
(***************************************************************************)
\* the session is under way: started, no game over requested or shown
InSession == mounted /\ gameStarted /\ ~GameOverRequested /\ ~GameOverShown

C22_LevelMonotonic == [][(InSession /\ InSession') => level' >= level]_vars

(***************************************************************************)
(* C23.  A simulation step counts the spawn timer up by 1.  When the       *)
(* count reaches the frequency threshold of the step's score, the step     *)
(* adds exactly one gate (not passed, above the visible area, colour index *)
(* below the number of colours of the step's level) and sets the timer to  *)
(* 0; otherwise it adds no gate.  So after a step the timer is below the   *)
(* step's threshold and at most one gate is new.                           *)
(***************************************************************************)
\* this transition ran one simulation step (start, frame callback or effect)
SteppedOnce == mounted /\ gameRunning /\ ~showPopup /\ obstacleTimer' # obstacleTimer

\* the gates of the next state that the current state does not have
NewGates == {j \in 1..Len(obstacles') : obstacles'[j].id \notin GateIds(obstacles)}

C23_SpawnTimer ==
    [][SteppedOnce =>
        \A f \in frames' : f.id = animationRef' =>
            LET threshold == FrequencyOf(variant, f.score)
            IN  /\ obstacleTimer' < threshold
                /\ Cardinality(NewGates) <= 1
                /\ IF obstacleTimer + 1 >= threshold
                   THEN /\ obstacleTimer' = 0
                        /\ \E j \in NewGates :
                            /\ NewGates = {j}
                            /\ ~obstacles'[j].passed
                            /\ obstacles'[j].y < 0
                            /\ obstacles'[j].colorIndex \in 0..(ColorCount(f.level) - 1)
                   ELSE /\ obstacleTimer' = obstacleTimer + 1
                        /\ NewGates = {}]_vars

\* a step has just spawned a gate of the second colour
C23_Witness ==
    /\ gameStarted /\ obstacleTimer = 0 /\ frames # {}
    /\ \E i \in 1..Len(obstacles) :
        /\ obstacles[i].y = SpawnY(variant) + gameSpeed
        /\ obstacles[i].colorIndex = 1

(***************************************************************************)
(* The spawn threshold alone: obstacleFrequency of animate, applied to     *)
(* every score up to MaxFreqScore in both variants.                        *)
(***************************************************************************)
InitFrequency ==
    /\ InitGame
    /\ fnIn \in 0..MaxFreqScore
    /\ fnOut = 0

\* const obstacleFrequency = Math.max(.. - Math.floor(score / ..), ..)
DeriveFrequency ==
    /\ fnOut = 0
    /\ fnOut' = FrequencyOf(variant, fnIn)
    /\ UNCHANGED <<fnIn, GameVars>>

\* the same on the next score
RaiseFrequency ==
    /\ fnOut # 0
    /\ fnIn < MaxFreqScore
    /\ fnIn' = fnIn + 1
    /\ fnOut' = FrequencyOf(variant, fnIn + 1)
    /\ UNCHANGED GameVars

NextFrequency ==
    \/ DeriveFrequency
    \/ RaiseFrequency

SpecFrequency == InitFrequency /\ [][NextFrequency]_vars

(***************************************************************************)
(* C24.  The spawn threshold of a score is max(100 - floor(score / 200),   *)
(* 50) in part_000 and max(80 - floor(score / 50), 40) in GameCanvas.tsx:  *)
(* never below its floor and never larger for a larger score.              *)
(***************************************************************************)
C24_Frequency ==
    [][/\ variant = "part" =>
            /\ fnOut' = (IF 100 - fnIn' \div 200 > 50 THEN 100 - fnIn' \div 200 ELSE 50)
            /\ fnOut' >= 50
       /\ variant = "canvas" =>
            /\ fnOut' = (IF 80 - fnIn' \div 50 > 40 THEN 80 - fnIn' \div 50 ELSE 40)
            /\ fnOut' >= 40
       /\ (fnOut # 0 /\ fnIn' > fnIn) => fnOut' <= fnOut]_vars

\* the threshold of part_000 has been derived past the score where the floor
\* takes over
C24_Witness == variant = "part" /\ fnIn = 10250 /\ fnOut = 50

(***************************************************************************)
(* C25.  At the end of a simulation step the speed is 2 + k *              *)
(* floor(score / 100) for the session's score, k = 0.25 in part_000 and    *)
(* 0.5 in GameCanvas.tsx (in quarter pixels: 8 + floor(score / 100) * 1 or *)
(* 2); it is not smaller than before when the score is not; and every gate *)
(* of the step, the one it spawned included, has moved down by that speed. *)
(***************************************************************************)
C25_Speed ==
    [][SteppedOnce =>
        /\ gameSpeed' = 8 + (score' \div 100) * (IF variant = "part" THEN 1 ELSE 2)
        /\ score' >= score => gameSpeed' >= gameSpeed
        /\ \A j \in 1..Len(obstacles') :
            /\ j \in NewGates => obstacles'[j].y = SpawnY(variant) + gameSpeed'
            /\ \A i \in 1..Len(obstacles) :
                obstacles[i].id = obstacles'[j].id =>
                    obstacles'[j].y = obstacles[i].y + gameSpeed']_vars

\* a step at score 100 has moved a gate by the raised speed
C25_Witness ==
    /\ score >= 100 /\ gameRunning /\ frames # {}
    /\ gameSpeed = 8 + (IF variant = "part" THEN 1 ELSE 2)
    /\ \E i \in 1..Len(obstacles) : obstacles[i].y = SpawnY(variant) + 2 * gameSpeed

(***************************************************************************)
(* C26.  A gate is spawned at the fixed centre position with the width and *)
(* height it has for the rest of its life: the box the collision test of   *)
(* its spawn step uses is the box the gate has after that step, and no     *)
(* later step changes it.  Stated for both variants; GameCanvas.tsx spawns *)
(* a 60 x 30 gate at a random x, and its draw loop then makes it 120 x 60  *)
(* at the centre.                                                          *)
(***************************************************************************)
\* the horizontal extent and the size of a gate
Box(g) == <<g.x, g.width, g.height>>

C26_SpawnGeometry ==
    [][/\ \A j \in NewGates : \A sx \in SpawnXs(variant) :
            /\ sx = CenterX(variant)
            /\ Box(obstacles'[j]) = <<sx, SpawnWidth(variant), SpawnHeight(variant)>>
       /\ \A i \in 1..Len(obstacles), j \in 1..Len(obstacles') :
            obstacles[i].id = obstacles'[j].id =>
                Box(obstacles'[j]) = Box(obstacles[i])]_vars

(***************************************************************************)
(* C27.  A step removes a gate whose position reaches canvas height + 50   *)
(* (650) in that step, so every gate of the collection is above 650 after  *)
(* every step; and a gate leaves the collection only that way, by a        *)
(* collision with a ball of another colour, or by an acknowledgment.       *)
(***************************************************************************)
\* the gate i of the current state is not in the next state
Removed(i) == obstacles[i].id \notin GateIds(obstacles')

\* gate i collides, not yet passed, with a ball of another colour in this step
Mismatched(i) ==
    /\ ~obstacles[i].passed
    /\ Overlaps(i)
    /\ colorIndex # obstacles[i].colorIndex

C27_GateRemoval ==
    [][/\ \A j \in 1..Len(obstacles') : obstacles'[j].y < 650 * Q
       /\ \A i \in 1..Len(obstacles) :
            /\ (SteppedOnce /\ obstacles[i].y + gameSpeed' >= 650 * Q) => Removed(i)
            /\ Removed(i) =>
                \/ Acknowledged
                \/ SteppedOnce /\ obstacles[i].y + gameSpeed' >= 650 * Q
                \/ SteppedOnce /\ Mismatched(i)]_vars

\* the first session has scored five gates and two of them are gone already
C27_Witness ==
    /\ overs = 0 /\ gameRunning /\ ~showPopup /\ updates = <<>>
    /\ score = 50
    /\ Len(obstacles) <= 3

(***************************************************************************)
(* A session in progress at a high score, where a gate moves more than the *)
(* height of the hit-box in one step (120 px a step in part_000 at score   *)
(* 47200, 114 px in GameCanvas.tsx at 22400): a gate is at 400 or 406 in   *)
(* one step and at 520 in the next, where it overlaps the ball only when   *)
(* the bounce is down.  The state is the one after a frame of a first      *)
(* session at level 5 with no gate on screen; from there everything is     *)
(* free as in Spec, for one more scored gate.                              *)
(***************************************************************************)
FastScore(v) == IF v = "part" THEN FastScorePart ELSE FastScoreCanvas

InitFast ==
    /\ variant \in Variants
    /\ mounted = TRUE
    /\ gameStarted = TRUE
    /\ score = FastScore(variant)
    /\ level = LevelOf(FastScore(variant))
    /\ highScore = 0
    /\ showPopup = FALSE
    /\ popupText = IF variant = "part"
                   THEN LevelUpText(MaxLevel - 1, (MaxLevel - 1) * LevelScore, MaxLevel)
                   ELSE NoPopup
    /\ updates = <<>>
    /\ lag = 0
    /\ colorIndex = 0
    /\ bounceHeight = BounceAmp * Q
    /\ obstacles = <<>>
    /\ particles = <<>>
    /\ gameSpeed = SpeedOf(variant, FastScore(variant))
    /\ obstacleTimer = FrequencyOf(variant, FastScore(variant)) - 2
    /\ gameRunning = TRUE
    /\ animationRef = 1
    /\ frames = {FrameRec(1, "effect",
                          Closure(FastScore(variant), LevelOf(FastScore(variant)), 0))}
    /\ overs = 0
    /\ fnIn = 0
    /\ fnOut = 0

FrameFast ==
    FrameStep(IF overs = 0 THEN FastScore(variant) + MaxScore ELSE MaxScore, 0)

CommitFast ==
    CommitStep(IF overs = 0 THEN FastScore(variant) + MaxScore ELSE MaxScore, 0)

NextFast ==
    \/ FrameFast
    \/ CommitFast
    \/ PopupAction
    \/ HandleKeyDown
    \/ HandleTouch
    \/ HandleClick

SpecFast == InitFast /\ [][NextFast]_vars

(***************************************************************************)
(* C28.  A gate not yet passed that a step moves below the ball (position  *)
(* greater than ball position + radius + 20 = 540) without a collision is  *)
(* marked passed in that step, if the step keeps it; and a passed gate     *)
(* below the ball never awards points and never ends the session: a step   *)
(* that awards or ends does so for the first overlap of another gate.      *)
(***************************************************************************)
C28_PassedBelow ==
    [][\A i \in 1..Len(obstacles) :
        /\ (/\ SteppedOnce
            /\ ~obstacles[i].passed
            /\ ~Overlaps(i)
            /\ obstacles[i].y + gameSpeed' > (BallY + BallRadius + 20) * Q) =>
                (Removed(i) \/ PassedNext(obstacles[i].id))
        /\ (/\ SteppedOnce
            /\ obstacles[i].passed
            /\ obstacles[i].y > (BallY + BallRadius + 20) * Q
            /\ (GameOverRequested' \/ ScoreTotal' # ScoreTotal)) =>
                \E j \in 1..Len(obstacles) : j # i /\ FirstOverlap(j)]_vars

\* a gate of the first session is below the ball and passed, and nothing
\* was scored: the gate went by the ball without a collision
C28_Witness ==
    /\ overs = 0 /\ gameRunning /\ ~showPopup
    /\ ScoreTotal = FastScore(variant)
    /\ particles = <<>>
    /\ \E i \in 1..Len(obstacles) :
        /\ obstacles[i].passed
        /\ obstacles[i].y > (BallY + BallRadius + 20) * Q

(***************************************************************************)
(* C29.  A scoring collision adds exactly 15 particles and a mismatched    *)
(* collision exactly 8, and nothing else adds particles: a step's          *)
(* particles are those that outlive it plus 15 for every first overlap of  *)
(* the ball's colour and 8 for every first overlap of another colour, and  *)
(* no other transition makes the collection longer.                        *)
(***************************************************************************)
\* the gates whose first overlap is in this step, of the ball's colour or not
Hits(same) ==
    {i \in 1..Len(obstacles) :
        /\ ~obstacles[i].passed
        /\ Overlaps(i)
        /\ (obstacles[i].colorIndex = colorIndex) = same}

C29_ParticleBursts ==
    [][IF SteppedOnce
       THEN Len(particles') =
                Len(SelectSeq(particles, LAMBDA l : l # 1))
                + 15 * Cardinality(Hits(TRUE)) + 8 * Cardinality(Hits(FALSE))
       ELSE Len(particles') <= Len(particles)]_vars

\* the step of a scoring collision has just added its burst
C29_Witness ==
    /\ gameStarted /\ gameRunning
    /\ ScoreTotal = 10
    /\ Len(particles) = 15
    /\ \A k \in 1..Len(particles) : particles[k] = SuccessLife - 1

(***************************************************************************)
(* C30.  Every simulation step renders its frame with the ball's colour    *)
(* index and every gate's colour index below the number of colours of the  *)
(* level the frame uses, so the render's colour lookups are defined and    *)
(* the step ends by requesting the next frame.  Stated for both variants,  *)
(* across level changes and after a game-over acknowledgment; in part_000  *)
(* the level falls back to 1 after the acknowledgment while the ball may   *)
(* already have the third colour of the level the handler kept.            *)
(***************************************************************************)
C30_ColourLookup ==
    [][SteppedOnce =>
        \E f \in frames' :
            /\ f.id = animationRef'
            /\ colorIndex' < ColorCount(f.level)
            /\ \A j \in 1..Len(obstacles') :
                obstacles'[j].colorIndex < ColorCount(f.level)]_vars

(***************************************************************************)
(* C31.  Consecutive gates are further apart than the overlap window (the  *)
(* ball's height plus the gate's), so in one simulation step at most one   *)
(* gate not yet passed overlaps the ball: a step awards at most 10 points  *)
(* and never both scores and ends the session.                             *)
(***************************************************************************)
\* two gates of the next state are never both within the ball's hit-box
Spaced ==
    \A i, j \in 1..Len(obstacles') :
        (i # j /\ obstacles'[i].y >= obstacles'[j].y) =>
            obstacles'[i].y - obstacles'[j].y >=
                2 * BallRadius * Q + Max(obstacles'[i].height, obstacles'[j].height)

C31_OneGatePerStep ==
    [][/\ Spaced
       /\ SteppedOnce =>
            /\ Cardinality(Hits(TRUE) \cup Hits(FALSE)) <= 1
            /\ ScoreTotal' \in {ScoreTotal, ScoreTotal + 10}
            /\ ~(/\ ScoreTotal' # ScoreTotal
                 /\ ~GameOverRequested /\ GameOverRequested')]_vars

\* a gate has just been scored while the next gate is already on its way
C31_Witness ==
    /\ gameStarted /\ gameRunning
    /\ Len(particles) = SuccessCount /\ particles[1] = SuccessLife - 1
    /\ \E i, j \in 1..Len(obstacles) :
        /\ obstacles[i].passed /\ Collision(obstacles[i], bounceHeight)
        /\ ~obstacles[j].passed

(***************************************************************************)
(* The fast session again, with the frame loop and React's commits kept    *)
(* going: a requested frame callback runs, and a pending update is         *)
(* rendered and committed, so one of the two happens as long as one can.   *)
(***************************************************************************)
SpecFastLive ==
    /\ InitFast
    /\ [][NextFast]_vars
    /\ WF_vars(FrameFast \/ CommitFast)

(***************************************************************************)
(* Vocabulary of C32.                                                      *)
(***************************************************************************)
\* the score from which the exploration follows a session no further
ScoreCap == IF overs = 0 THEN FastScore(variant) + MaxScore ELSE MaxScore

\* a step shorter than the overlap window at its narrowest: the ball's
\* height less the bounce, plus the gate's height
SlowStep(speed) == speed < (2 * BallRadius - BounceAmp) * Q + GateHeight(variant)

\* a step ends the pending state of gate i only by a collision
LeavesByCollision(i) ==
    (/\ SteppedOnce
     /\ ~obstacles[i].passed
     /\ Removed(i) \/ PassedNext(obstacles[i].id)) => Overlaps(i)

\* no gate is waiting for its collision, or the session is not running with
\* frames requested, or the exploration follows it no further
NoneWaiting(slowOnly) ==
    \/ \A i \in 1..Len(obstacles) : obstacles[i].passed
    \/ slowOnly /\ ~SlowStep(gameSpeed)
    \/ ~Running \/ showPopup \/ frames = {}
    \/ ScoreTotal >= ScoreCap

\* a step in which a gate not yet passed collides with the ball
GateCollides ==
    /\ SteppedOnce
    /\ \E i \in 1..Len(obstacles) : ~obstacles[i].passed /\ Overlaps(i)

ScoringCollision ==
    \E i \in 1..Len(obstacles) :
        FirstOverlap(i) /\ obstacles[i].colorIndex = colorIndex

C33_ScoreChanges ==
    [][/\ score' >= 0 /\ score' % 10 = 0
       /\ ScoreTotal' >= 0 /\ ScoreTotal' % 10 = 0
       /\ ScoreTotal' # ScoreTotal =>
            \/ ScoreTotal' = ScoreTotal + 10 /\ Running /\ ScoringCollision
            \/ ScoreTotal' = 0 /\ Acknowledged /\ GameOverShown
       /\ score' # score =>
            \/ score' = ScoreTotal /\ updates # <<>> /\ ~Acknowledged
            \/ score' = 0 /\ Acknowledged /\ GameOverShown
       /\ (Stepped /\ ~ScoringCollision) => ScoreTotal' = ScoreTotal
       /\ LevelUpShown => <<score, ScoreTotal>>' = <<score, ScoreTotal>>
       /\ InputEvent => <<score, ScoreTotal>>' = <<score, ScoreTotal>>]_vars

\* a game over after the first level-up has been acknowledged: the score is
\* back at 0
C33_Witness ==
    /\ overs = 1 /\ Running
    /\ score = 0 /\ ScoreTotal = 0
    /\ highScore >= LevelScore

(***************************************************************************)
(* C34.  part_000: a scoring collision whose new score does not raise the  *)
(* level neither pauses the session nor requests a notification; a         *)
(* level-up pause or notification begins only with a score of 200, 400,    *)
(* 600 or 800 that raises the level, in the step or the commit that adds   *)
(* the 10 points.                                                          *)
(***************************************************************************)
\* a level-up notification is requested or shown
LevelUpPending == LevelUpRequested \/ LevelUpShown

\* the session stops running in this transition, and not for a game over
PauseBegins ==
    /\ gameRunning /\ ~gameRunning'
    /\ ~GameOverRequested' /\ ~GameOverShown'

C34_PauseOnlyOnLevelUp ==
    [][variant = "part" =>
        /\ (Stepped /\ ScoringCollision /\ LevelOf(ScoreTotal') <= level) =>
                /\ gameRunning'
                /\ ~LevelUpPending'
        /\ (PauseBegins \/ (~LevelUpPending /\ LevelUpPending')) =>
                /\ ScoreTotal' \in {200, 400, 600, 800}
                /\ LevelOf(ScoreTotal') > level
                /\ ScoreTotal' = ScoreTotal + 10 \/ score' = score + 10]_vars

\* part_000 has just scored 190: the session runs on and nothing is requested
C34_Witness ==
    /\ variant = "part" /\ Running
    /\ ScoreTotal = LevelScore - ScoreStep /\ updates # <<>>
    /\ ~LevelUpPending
    /\ Len(particles) = SuccessCount /\ particles[1] = SuccessLife - 1

(***************************************************************************)
(* C35.  Whenever the session is Running and no score or level update is   *)
(* pending, the level is min(floor(score / 200) + 1, 5) of the committed   *)
(* score, the colour count is min(level + 1, 5) of that level, and every   *)
(* pending frame of the loop carries that score and that level.            *)
(***************************************************************************)
\* the frame loop reads the committed score and level
LoopInSync ==
    \A f \in frames :
        /\ f.score = score
        /\ f.level = level
        /\ ColorCount(f.level) = Min(level + 1, MaxLevel)

C35_LevelInSync ==
    (Running /\ updates = <<>>) =>
        /\ level = LevelOf(score)
        /\ LoopInSync

\* a second-level session runs with nothing pending and a frame requested
C35_Witness ==
    /\ Running /\ updates = <<>>
    /\ score = LevelScore /\ level = 2
    /\ frames # {} /\ LoopInSync

====
